---- MODULE Spec2Model ----
(***************************************************************************)
(* State-machine model of InMemoryRateLimitGuard (packages/ts-nestjs), the *)
(* in-memory sliding-window rate limiter.  Strings that the code takes     *)
(* apart (the x-forwarded-for header, the client address) are sequences of *)
(* one-character strings.  `history` is a ghost variable: the guard's      *)
(* decisions in call order.                                                *)
(***************************************************************************)
EXTENDS Integers, Sequences, FiniteSets, TLC

VARIABLES status, argument, thrown, options, requestTimestamps, clock, response, outcome, history

\* ghost: the requests of the decided calls, in call order
VARIABLES requests

limiterVars ==
  <<status, argument, thrown, options, requestTimestamps, clock, response, outcome, history>>

keyVars == <<requests>>

\* a second instance, built with the same options: its mapping and its
\* decisions in call order
VARIABLES twinTimestamps, twinHistory

twinVars == <<twinTimestamps, twinHistory>>

\* calls started concurrently on one instance: every call's position in
\* canActivate and its locals, and the call that holds the thread (0: none)
VARIABLES jobs, thread

concVars == <<jobs, thread>>

\* TransactionalRepository: the repository instances, the transactions the
\* data source has opened, the rows the database holds, and the last
\* result of lockInTransaction
VARIABLES repos, txs, db, lock, made

repoVars == <<repos, txs, db, lock, made>>

VARIABLES rolesMap, auth

authVars == <<rolesMap, auth>>

\* the variables the limiter's own actions leave alone
others == <<keyVars, twinVars, concVars, repoVars, authVars>>

vars == <<limiterVars, others>>

(* ---- bounds ---------------------------------------------------------- *)
MaxCalls == 4
MaxFine == 1
MaxCoarse == 5

\* the instants Date.now() may return: the first few milliseconds and then
\* every half second
Times == (0..MaxFine) \cup {500 * c : c \in 1..MaxCoarse}

WindowChoices == {-1, 0, 2, 1500}
MaxRequestsChoices == {-1, 0, 1, 2}

OptionChoices == [windowMs : WindowChoices, maxRequests : MaxRequestsChoices]

(* ---- requests -------------------------------------------------------- *)
Undefined == [kind |-> "undefined", str |-> <<>>, arr |-> <<>>]
StringValue(s) == [kind |-> "string", str |-> s, arr |-> <<>>]
ArrayValue(a) == [kind |-> "array", str |-> <<>>, arr |-> a]

KeyA == <<"a">>
KeyB == <<"b">>
Keys == {KeyA, KeyB}

Requests ==
  { [xff |-> StringValue(KeyA), ip |-> Undefined],
    [xff |-> StringValue(<<" ", "b", " ", ",", "a">>), ip |-> StringValue(KeyA)],
    [xff |-> ArrayValue(<<KeyB, KeyA>>), ip |-> Undefined],
    [xff |-> Undefined, ip |-> StringValue(KeyA)],
    [xff |-> Undefined, ip |-> StringValue(KeyB)] }

Whitespace == {" ", "\t"}

SetMin(S) == CHOOSE x \in S : \A y \in S : x <= y
SetMax(S) == CHOOSE x \in S : \A y \in S : x >= y

\* s.split(',')[0]
FirstField(s) ==
  LET commas == {i \in 1..Len(s) : s[i] = ","}
  IN IF commas = {} THEN s ELSE SubSeq(s, 1, SetMin(commas) - 1)

\* s.trim()
Trim(s) ==
  LET solid == {i \in 1..Len(s) : s[i] \notin Whitespace}
  IN IF solid = {} THEN <<>> ELSE SubSeq(s, SetMin(solid), SetMax(solid))

\* JavaScript truthiness of a header or address value
Truthy(v) == \/ v.kind = "array"
             \/ v.kind = "string" /\ v.str # <<>>

Unknown == <<"u", "n", "k", "n", "o", "w", "n">>

\* request.ip takes precedence over the header
extractIp_IpFirst(request) ==
  IF Truthy(request.ip) THEN request.ip.str
  ELSE IF Truthy(request.xff)
  THEN LET ips == IF request.xff.kind = "array" THEN request.xff.arr[1] ELSE request.xff.str
       IN Trim(FirstField(ips))
  ELSE Unknown

extractIp(request) ==
  IF Truthy(request.xff)
  THEN LET ips == IF request.xff.kind = "array" THEN request.xff.arr[1] ELSE request.xff.str
       IN Trim(FirstField(ips))
  ELSE IF Truthy(request.ip) THEN request.ip.str
  ELSE Unknown

(* ---- arithmetic ------------------------------------------------------ *)
\* Math.floor in place of Math.ceil
Ceil_Floor(x, d) == x \div d

\* Math.ceil(x / d) for integers x and d > 0
Ceil(x, d) == -((-x) \div d)

MsPerSecond == 1000

\* Math.round in place of Math.ceil
retryAfterOf_Round(oldestTimestamp, windowMs, now) ==
  (2 * (oldestTimestamp + windowMs - now) + MsPerSecond) \div (2 * MsPerSecond)

\* the remaining time truncated to whole seconds
retryAfterOf_Trunc(oldestTimestamp, windowMs, now) ==
  (oldestTimestamp + windowMs - now) \div MsPerSecond

\* whole seconds plus one in place of the ceiling
retryAfterOf_FloorPlusOne(oldestTimestamp, windowMs, now) ==
  ((oldestTimestamp + windowMs - now) \div MsPerSecond) + 1

retryAfterOf(oldestTimestamp, windowMs, now) ==
  Ceil(oldestTimestamp + windowMs - now, MsPerSecond)

(* ---- the limiter ----------------------------------------------------- *)
ErrorMessage == "windowMs and maxRequests must be positive"

Unset == [windowMs |-> 0, maxRequests |-> 0]
NoOutcome == [kind |-> "none", value |-> FALSE, status |-> 0, message |-> ""]
Returned(v) == [kind |-> "returned", value |-> v, status |-> 0, message |-> ""]
HttpException(msg, code) == [kind |-> "threw", value |-> FALSE, status |-> code, message |-> msg]
TOO_MANY_REQUESTS == 429

EmptyMap == [k \in {} |-> <<>>]

Init ==
  /\ status = "unconstructed"
  /\ argument = Unset
  /\ thrown = ""
  /\ options = Unset
  /\ requestTimestamps = EmptyMap
  /\ clock = 0
  /\ response = {}
  /\ outcome = NoOutcome
  /\ history = <<>>
  /\ requests = <<>>
  /\ twinTimestamps = EmptyMap
  /\ twinHistory = <<>>
  /\ jobs = <<>>
  /\ thread = 0
  /\ repos = <<>>
  /\ txs = <<>>
  /\ db = {}
  /\ lock = [called |-> FALSE, repo |-> 0, argument |-> "undefined",
             defined |-> FALSE, mode |-> "undefined"]
  /\ made = [by |-> "none", this |-> 0, manager |-> 0, instance |-> 0]
  /\ rolesMap = [handler \in {"testAuth", "check"} |-> [has |-> FALSE, roles |-> <<>>]]
  /\ auth = [called |-> FALSE, handler |-> "check",
             requiredRoles |-> [has |-> FALSE, roles |-> <<>>], user |-> "undefined",
             userRoles |-> <<>>, asked |-> FALSE, outcome |-> NoOutcome]

\* && in place of ||
RejectsOptions_Both(o) == o.windowMs <= 0 /\ o.maxRequests <= 0

RejectsOptions(o) == o.windowMs <= 0 \/ o.maxRequests <= 0

Construct(o) ==
  /\ status = "unconstructed"
  /\ argument' = o
  /\ IF RejectsOptions(o)
     THEN /\ status' = "threw"
          /\ thrown' = ErrorMessage
          /\ UNCHANGED options
     ELSE /\ status' = "constructed"
          /\ options' = o
          /\ UNCHANGED thrown
  /\ UNCHANGED <<requestTimestamps, clock, response, outcome, history>>

\* the filter keeps every timestamp
IsValid_Always(timestamp, windowStart) == TRUE

\* >= in place of >
IsValid_Inclusive(timestamp, windowStart) == timestamp >= windowStart

IsValid(timestamp, windowStart) == timestamp > windowStart

ValidTimestamps(timestamps, windowStart) ==
  SelectSeq(timestamps, LAMBDA timestamp : IsValid(timestamp, windowStart))

\* > in place of >=
OverLimit_OffByOne(validTimestamps) == Len(validTimestamps) > options.maxRequests

OverLimit(validTimestamps) == Len(validTimestamps) >= options.maxRequests

\* response.setHeader(name, value) on a response with the given headers
setHeader(headers, name, value) ==
  {h \in headers : h[1] # name} \cup {<<name, value>>}

\* the header carries the remaining time unrounded, in milliseconds
RejectionHeaders_Millis(retryAfter, oldestTimestamp, now) ==
  setHeader({}, "Retry-After", oldestTimestamp + options.windowMs - now)

\* the headers of the response of a rejected call
RejectionHeaders(retryAfter, oldestTimestamp, now) ==
  setHeader({}, "Retry-After", retryAfter)

TooManyRequests == HttpException("Too Many Requests", TOO_MANY_REQUESTS)

MapGet(map, ip) == IF ip \in DOMAIN map THEN map[ip] ELSE <<>>

MapSet(map, ip, value) ==
  [k \in DOMAIN map \cup {ip} |-> IF k = ip THEN value ELSE map[k]]

\* the pass keeps only the entries that hold the current instant
cleanupExpiredEntries_DropsOthers(map, now) ==
  LET kept == {ip \in DOMAIN map : \E n \in 1..Len(map[ip]) : map[ip][n] = now}
  IN [ip \in kept |-> map[ip]]

\* the pass stores the pruned list even when it is empty
cleanupExpiredEntries_KeepsEmpty(map, now) ==
  LET windowStart == now - options.windowMs
  IN [ip \in DOMAIN map |-> SelectSeq(map[ip], LAMBDA timestamp : timestamp > windowStart)]

\* the pass deletes the expired entries and leaves the others unpruned
cleanupExpiredEntries_OnlyDeletes(map, now) ==
  LET windowStart == now - options.windowMs
      kept == {ip \in DOMAIN map :
                 SelectSeq(map[ip], LAMBDA timestamp : timestamp > windowStart) # <<>>}
  IN [ip \in kept |-> map[ip]]

\* the pass keeps the timestamps aged exactly windowMs
cleanupExpiredEntries_Inclusive(map, now) ==
  LET windowStart == now - options.windowMs
      kept == {ip \in DOMAIN map :
                 SelectSeq(map[ip], LAMBDA timestamp : timestamp >= windowStart) # <<>>}
  IN [ip \in kept |-> SelectSeq(map[ip], LAMBDA timestamp : timestamp >= windowStart)]

cleanupExpiredEntries(map, now) ==
  LET windowStart == now - options.windowMs
      kept == {ip \in DOMAIN map : ValidTimestamps(map[ip], windowStart) # <<>>}
  IN [ip \in kept |-> ValidTimestamps(map[ip], windowStart)]

Decision(ip, now, admitted, retryAfter) ==
  [ip |-> ip, now |-> now, admitted |-> admitted, retryAfter |-> retryAfter]

\* the push and the set of lines 38-39 run before the limit check
AfterRejection_Records(map, ip, validTimestamps, now) ==
  MapSet(map, ip, Append(validTimestamps, now))

\* the rejected call forgets the oldest counted timestamp
AfterRejection_DropsOldest(map, ip, validTimestamps, now) ==
  MapSet(map, ip, Tail(validTimestamps))

\* the rejected call restarts the window of the timestamps it counted
AfterRejection_Restarts(map, ip, validTimestamps, now) ==
  MapSet(map, ip, [n \in 1..Len(validTimestamps) |-> now])

\* the pruning pass runs before the throw
AfterRejection_Prunes(map, ip, validTimestamps, now) == cleanupExpiredEntries(map, now)

\* the mapping after a rejected call: the throw of line 35 comes before the
\* push and the set of lines 38-39 and before the pruning pass of line 41
AfterRejection(map, ip, validTimestamps, now) == map

\* unshift in place of push
AfterAdmission_Unshift(map, ip, validTimestamps, now) ==
  cleanupExpiredEntries(MapSet(map, ip, <<now>> \o validTimestamps), now)

\* the call's time is pushed on the stored list, unfiltered, and no pass runs
AfterAdmission_NoPrune(map, ip, validTimestamps, now) ==
  MapSet(map, ip, Append(MapGet(map, ip), now))

\* the mapping after an admitted call: lines 38-41
AfterAdmission(map, ip, validTimestamps, now) ==
  cleanupExpiredEntries(MapSet(map, ip, Append(validTimestamps, now)), now)

TypeErrorThrown == [kind |-> "threw", value |-> FALSE, status |-> 0, message |-> "TypeError"]

\* xForwardedFor[0] is undefined and undefined.split throws
ThrowsTypeError(request) == request.xff.kind = "array" /\ request.xff.arr = <<>>

\* the body of canActivate on an instance whose mapping is map, with
\* Date.now() = now: the mapping it leaves, the response headers it sets,
\* its outcome and its decision (none when extractIp throws)
Activation(map, request, now) ==
  IF ThrowsTypeError(request)
  THEN [map |-> map, response |-> {}, outcome |-> TypeErrorThrown, decisions |-> <<>>]
  ELSE
    LET ip == extractIp(request)
        windowStart == now - options.windowMs
        timestamps == MapGet(map, ip)
        validTimestamps == ValidTimestamps(timestamps, windowStart)
    IN IF OverLimit(validTimestamps)
       THEN LET oldestTimestamp == validTimestamps[1]
                retryAfter == retryAfterOf(oldestTimestamp, options.windowMs, now)
            IN [map |-> AfterRejection(map, ip, validTimestamps, now),
                response |-> RejectionHeaders(retryAfter, oldestTimestamp, now),
                outcome |-> TooManyRequests,
                decisions |-> <<Decision(ip, now, FALSE, retryAfter)>>]
       ELSE [map |-> AfterAdmission(map, ip, validTimestamps, now),
             response |-> {},
             outcome |-> Returned(TRUE),
             decisions |-> <<Decision(ip, now, TRUE, 0)>>]

canActivate(request, now) ==
  /\ status = "constructed"
  /\ Len(history) < MaxCalls
  /\ now >= clock
  /\ LET result == Activation(requestTimestamps, request, now)
     IN /\ clock' = IF result.decisions = <<>> THEN clock ELSE now
        /\ requestTimestamps' = result.map
        /\ response' = result.response
        /\ outcome' = result.outcome
        /\ history' = history \o result.decisions
  /\ UNCHANGED <<status, argument, thrown, options>>

Next ==
  \/ \E o \in OptionChoices : Construct(o) /\ UNCHANGED others
  \/ \E request \in Requests, now \in Times :
       canActivate(request, now) /\ UNCHANGED others

Spec == Init /\ [][Next]_vars

(* ---- reading the decision history ------------------------------------ *)
Calls == 1..Len(history)

CallsFor(k) == {i \in Calls : history[i].ip = k}

Rejections == {i \in Calls : ~history[i].admitted}

\* the admitted calls for call i's key made before call i
AdmittedBefore(i) ==
  {j \in 1..(i - 1) : history[j].ip = history[i].ip /\ history[j].admitted}

\* the times of the admitted calls that call i counts: those made less
\* than windowMs before it
CountedBy(i) ==
  {history[j].now : j \in {j \in AdmittedBefore(i) :
                              history[j].now > history[i].now - options.windowMs}}

Running == status = "constructed"

(* ---- C1 -------------------------------------------------------------- *)
AdmittedWithin(k, now) ==
  {i \in CallsFor(k) : /\ history[i].admitted
                       /\ history[i].now > now - options.windowMs
                       /\ history[i].now <= now}

\* C1: for every key and every instant now, at most maxRequests admitted
\* calls for the key have their time in (now - windowMs, now].  (A window
\* ending at any instant holds no more admitted calls than the window
\* ending at the latest admitted call in it, so the instants of Times
\* cover every window.)
C1_AtMostMaxRequestsPerWindow ==
  Running =>
    \A k \in Keys, now \in Times :
      Cardinality(AdmittedWithin(k, now)) <= options.maxRequests

C1_Witness ==
  /\ Running
  /\ options.maxRequests = 2
  /\ \E k \in Keys, now \in Times : Cardinality(AdmittedWithin(k, now)) = 2
  /\ Rejections # {}

(* ---- C2 -------------------------------------------------------------- *)
\* call i opens a window: no admitted call of its key is still counted
OpensWindow(i) == CountedBy(i) = {}

\* the calls of i's key from i on, made before call i has aged windowMs
InWindowOf(i) ==
  {j \in CallsFor(history[i].ip) :
     j >= i /\ history[j].now < history[i].now + options.windowMs}

Rank(i, j) == Cardinality({m \in InWindowOf(i) : m <= j})

C3_RetryHintPositive ==
  \A i \in Rejections : history[i].retryAfter >= 1

C3_Witness ==
  \E i \in Rejections :
    /\ history[i].retryAfter = 1
    /\ \E t \in CountedBy(i) : t + options.windowMs - history[i].now < MsPerSecond

(* ---- C5 -------------------------------------------------------------- *)
\* call i comes strictly more than windowMs after the last admitted call
\* of its key
AfterFullWindow(i) ==
  /\ AdmittedBefore(i) # {}
  /\ \A j \in AdmittedBefore(i) : history[i].now - history[j].now > options.windowMs

\* C5: a call made strictly more than windowMs after the last admitted call
\* for its key is admitted, whatever was rejected in between.
C5_WindowReset ==
  Running =>
    \A i \in Calls : AfterFullWindow(i) => history[i].admitted

C5_Witness ==
  /\ Running
  /\ \E i \in Calls :
       /\ AfterFullWindow(i)
       /\ history[i].admitted
       /\ \E r \in Rejections : r < i /\ history[r].ip = history[i].ip

(* ---- C8 -------------------------------------------------------------- *)
\* C8: for every rejection, the hinted retry instant
\* now + 1000 * retryAfterSeconds is at or after the instant at which the
\* oldest counted timestamp expires, oldestValid + windowMs.
C8_HintNotBeforeExpiry ==
  Running =>
    \A i \in Rejections :
      /\ CountedBy(i) # {}
      /\ history[i].now + 1000 * history[i].retryAfter
           >= SetMin(CountedBy(i)) + options.windowMs

C8_Witness ==
  /\ Running
  /\ \E i \in Rejections :
       /\ CountedBy(i) # {}
       /\ history[i].now + 1000 * history[i].retryAfter
            > SetMin(CountedBy(i)) + options.windowMs
       /\ history[i].retryAfter = 2

(* ---- C9 -------------------------------------------------------------- *)
\* call j is the retry of rejection i at the hinted instant, with no call
\* of the key admitted in between
RetryAtHint(i, j) ==
  /\ j > i
  /\ history[j].ip = history[i].ip
  /\ history[j].now = history[i].now + 1000 * history[i].retryAfter
  /\ \A m \in (i + 1)..(j - 1) : ~(history[m].ip = history[i].ip /\ history[m].admitted)

\* C9: the retry hint is a safe upper bound on the wait: a call made for
\* the rejected key at now + 1000 * retryAfterSeconds, with no call of that
\* key admitted in between, is admitted.
C9_RetryAtHintAdmitted ==
  Running =>
    \A i \in Rejections : \A j \in Calls :
      RetryAtHint(i, j) => history[j].admitted

C9_Witness ==
  /\ Running
  /\ options.maxRequests = 2
  /\ \E i \in Rejections : \E j \in Calls :
       RetryAtHint(i, j) /\ history[j].admitted

(* ---- C4 -------------------------------------------------------------- *)
\* the decisions a limiter that only ever sees the given call times of one
\* key returns for them
RECURSIVE Alone(_, _, _)
Alone(times, log, decisions) ==
  IF times = <<>> THEN decisions
  ELSE LET now == Head(times)
           valid == SelectSeq(log, LAMBDA t : t > now - options.windowMs)
       IN IF Len(valid) >= options.maxRequests
          THEN Alone(Tail(times), valid,
                     Append(decisions,
                            [admitted |-> FALSE,
                             retryAfter |-> -((now - valid[1] - options.windowMs) \div 1000)]))
          ELSE Alone(Tail(times), Append(valid, now),
                     Append(decisions, [admitted |-> TRUE, retryAfter |-> 0]))

HistoryOf(k) == SelectSeq(history, LAMBDA h : h.ip = k)

TimesOf(k) == [i \in 1..Len(HistoryOf(k)) |-> HistoryOf(k)[i].now]

DecisionsOf(k) ==
  [i \in 1..Len(HistoryOf(k)) |->
     [admitted |-> HistoryOf(k)[i].admitted, retryAfter |-> HistoryOf(k)[i].retryAfter]]

C6_ConstructorValidates ==
  status # "unconstructed" =>
    /\ status = "threw" <=> (argument.windowMs <= 0 \/ argument.maxRequests <= 0)
    /\ status = "threw" =>
         thrown = "windowMs and maxRequests must be positive" /\ history = <<>>
    /\ status = "constructed" =>
         /\ thrown = ""
         /\ options = argument
         /\ history = <<>> => DOMAIN requestTimestamps = {}

C6_Witness ==
  /\ status = "threw"
  /\ argument.windowMs > 0
  /\ argument.maxRequests = 0

(* ---- C7 -------------------------------------------------------------- *)
LastCall == history[Len(history)]

\* r is the remaining time x in milliseconds rounded up to whole seconds
IsCeilSeconds(r, x) == 1000 * (r - 1) < x /\ x <= 1000 * r

\* C7: a rejected call sets Retry-After to the retry hint (the time until
\* the oldest counted timestamp expires, in seconds rounded up) and fails
\* with 429 'Too Many Requests'; an admitted call returns true and sets no
\* Retry-After header.
C7_RejectionResponse ==
  (Running /\ history # <<>>) =>
    IF LastCall.admitted
    THEN /\ outcome = [kind |-> "returned", value |-> TRUE, status |-> 0, message |-> ""]
         /\ \A h \in response : h[1] # "Retry-After"
    ELSE /\ outcome = [kind |-> "threw", value |-> FALSE, status |-> 429,
                       message |-> "Too Many Requests"]
         /\ response = {<<"Retry-After", LastCall.retryAfter>>}
         /\ CountedBy(Len(history)) # {}
         /\ IsCeilSeconds(LastCall.retryAfter,
                          SetMin(CountedBy(Len(history))) + options.windowMs - LastCall.now)

C7_Witness ==
  /\ Running
  /\ history # <<>>
  /\ ~LastCall.admitted
  /\ response = {<<"Retry-After", 2>>}
  /\ outcome.status = 429

(* ---- C10 ------------------------------------------------------------- *)
\* no key of the mapping has all its timestamps expired at the last call
NoStaleKey ==
  \A k \in DOMAIN requestTimestamps :
    \E n \in 1..Len(requestTimestamps[k]) :
      requestTimestamps[k][n] > LastCall.now - options.windowMs

StoredValid ==
  LET log == IF LastCall.ip \in DOMAIN requestTimestamps
             THEN requestTimestamps[LastCall.ip] ELSE <<>>
  IN {log[n] : n \in {n \in 1..Len(log) : log[n] > LastCall.now - options.windowMs}}

Occurrences(log, t) == Cardinality({n \in 1..Len(log) : log[n] = t})

AdmittedAt(k, t) ==
  Cardinality({i \in CallsFor(k) : history[i].admitted /\ history[i].now = t})

\* C19: a rejected call never records its own time: every timestamp a
\* key's log holds is the time of an admitted call for that key, as many
\* times at most as calls were admitted at that time.
C19_RejectionNotRecorded ==
  Running =>
    \A k \in DOMAIN requestTimestamps : \A t \in Times :
      Occurrences(requestTimestamps[k], t) <= AdmittedAt(k, t)

\* a call rejected after the key's log filled up, at the instant of the
\* last admission and at a later one
C19_Witness ==
  /\ Running
  /\ Len(history) >= 3
  /\ ~LastCall.admitted
  /\ ~history[Len(history) - 1].admitted
  /\ history[Len(history) - 1].ip = LastCall.ip
  /\ history[Len(history) - 1].now < LastCall.now
  /\ LastCall.ip \in DOMAIN requestTimestamps
  /\ Occurrences(requestTimestamps[LastCall.ip], history[Len(history) - 1].now) = 1
  /\ Occurrences(requestTimestamps[LastCall.ip], LastCall.now) = 0

(* ---- C20 ------------------------------------------------------------- *)
RECURSIVE Newer(_, _)
Newer(log, windowStart) ==
  IF log = <<>> THEN <<>>
  ELSE IF Head(log) > windowStart
       THEN <<Head(log)>> \o Newer(Tail(log), windowStart)
       ELSE Newer(Tail(log), windowStart)

LogOf(map, k) == IF k \in DOMAIN map THEN map[k] ELSE <<>>

\* a step in which the guard decides a call
DecisionStep == Len(history') = Len(history) + 1

Decided == history'[Len(history')]

\* the step prunes every key relative to the call's windowStart, after
\* the call's own time is recorded when it is admitted
PrunesAllKeys ==
  /\ DOMAIN requestTimestamps' \subseteq Keys
  /\ \A k \in DOMAIN requestTimestamps' : requestTimestamps'[k] # <<>>
  /\ \A k \in Keys :
       LogOf(requestTimestamps', k) =
         Newer(LogOf(requestTimestamps, k)
                 \o (IF k = Decided.ip /\ Decided.admitted THEN <<Decided.now>> ELSE <<>>),
               Decided.now - options.windowMs)

MaxKeyCalls == 2

Blank == <<" ">>

KeyRequests ==
  { [xff |-> Undefined, ip |-> Undefined],
    [xff |-> Undefined, ip |-> StringValue(<<>>)],
    [xff |-> Undefined, ip |-> StringValue(KeyA)],
    [xff |-> Undefined, ip |-> StringValue(KeyB)],
    [xff |-> StringValue(<<>>), ip |-> StringValue(KeyB)],
    [xff |-> StringValue(<<>>), ip |-> Undefined],
    [xff |-> StringValue(KeyA), ip |-> StringValue(KeyB)],
    [xff |-> StringValue(<<" ", "b", " ", ",", "a">>), ip |-> StringValue(KeyA)],
    [xff |-> StringValue(<<",", "a">>), ip |-> StringValue(KeyA)],
    [xff |-> StringValue(Blank), ip |-> StringValue(KeyA)],
    [xff |-> ArrayValue(<<KeyB, KeyA>>), ip |-> StringValue(KeyA)],
    [xff |-> ArrayValue(<<<<" ", "a", ",", "b">>>>), ip |-> Undefined],
    [xff |-> ArrayValue(<< <<>> >>), ip |-> StringValue(KeyB)],
    [xff |-> ArrayValue(<<>>), ip |-> StringValue(KeyA)] }

\* canActivate, with the request of a decided call recorded
canActivateRecorded(request, now) ==
  /\ Len(requests) < MaxKeyCalls
  /\ canActivate(request, now)
  /\ requests' = IF Len(history') > Len(history) THEN Append(requests, request)
                 ELSE requests
  /\ UNCHANGED <<twinVars, concVars, repoVars, authVars>>

KeyNext ==
  \/ \E o \in OptionChoices : Construct(o) /\ UNCHANGED others
  \/ \E request \in KeyRequests, now \in 0..MaxFine : canActivateRecorded(request, now)

KeySpec == Init /\ [][KeyNext]_vars

(* ---- C13 ------------------------------------------------------------- *)
RECURSIVE UpToComma(_)
UpToComma(s) ==
  IF s = <<>> \/ Head(s) = "," THEN <<>> ELSE <<Head(s)>> \o UpToComma(Tail(s))

RECURSIVE DropLeadingBlanks(_)
DropLeadingBlanks(s) ==
  IF s # <<>> /\ Head(s) \in {" ", "\t"} THEN DropLeadingBlanks(Tail(s)) ELSE s

Reverse(s) == [i \in 1..Len(s) |-> s[Len(s) + 1 - i]]

Stripped(s) == Reverse(DropLeadingBlanks(Reverse(DropLeadingBlanks(s))))

Present(v) == v.kind = "array" \/ (v.kind = "string" /\ Len(v.str) > 0)

\* the key by the stated precedence: header entry, else address, else
\* the sentinel
ExpectedKey(request) ==
  IF Present(request.xff)
  THEN Stripped(UpToComma(IF request.xff.kind = "array"
                          THEN Head(request.xff.arr) ELSE request.xff.str))
  ELSE IF Present(request.ip) THEN request.ip.str
  ELSE <<"u", "n", "k", "n", "o", "w", "n">>

\* C13: the key of a call is the trimmed first comma-separated entry of
\* the x-forwarded-for header (of its first element when it is an array)
\* if the header is present, otherwise request.ip if present, otherwise
\* 'unknown'; requests that derive the same key share one window, and
\* requests that derive different keys do not.
C13_KeyPrecedence ==
  Running =>
    /\ Len(requests) = Len(history)
    /\ \A i \in 1..Len(requests) : history[i].ip = ExpectedKey(requests[i])
    /\ \A j \in 1..Len(requests) :
         history[j].admitted <=>
           Cardinality({i \in 1..(j - 1) :
                          /\ ExpectedKey(requests[i]) = ExpectedKey(requests[j])
                          /\ history[i].admitted
                          /\ history[i].now > history[j].now - options.windowMs})
             < options.maxRequests

\* a header of several entries and a bare address derive the same key and
\* the second of the two calls is rejected
C13_Witness ==
  /\ Running
  /\ Len(requests) = 2
  /\ requests[1].xff.kind = "string"
  /\ Len(requests[1].xff.str) = 5
  /\ requests[2].xff.kind = "undefined"
  /\ history[1].ip = KeyB
  /\ history[2].ip = KeyB
  /\ history[1].admitted
  /\ ~history[2].admitted

(* ---- two instances with the same options ----------------------------- *)
MaxTwinCalls == 3

\* the mapping is a static field: the second instance reads what the
\* first one has just written
TwinStore_Static == requestTimestamps'

\* the mapping the second instance works on: its own field
TwinStore == twinTimestamps

\* the same call is given to both instances
canActivateBoth(request, now) ==
  /\ Len(twinHistory) < MaxTwinCalls
  /\ canActivate(request, now)
  /\ LET result == Activation(TwinStore, request, now)
     IN /\ twinTimestamps' = result.map
        /\ twinHistory' = twinHistory \o result.decisions
  /\ UNCHANGED <<keyVars, concVars, repoVars, authVars>>

TwinNext ==
  \/ \E o \in OptionChoices : Construct(o) /\ UNCHANGED others
  \/ \E request \in Requests, now \in Times : canActivateBoth(request, now)

TwinSpec == Init /\ [][TwinNext]_vars

MaxJobs == 2

\* the positions of canActivate at which the call awaits and gives up the
\* thread, here one between the limit check and the write
YieldPoints_AwaitBeforeWrite == {"L38"}

\* the positions of canActivate at which the call awaits and gives up the
\* thread: lines 19-44 hold no await
YieldPoints == {}

NewJob(request) ==
  [pc |-> "L20", request |-> request, ip |-> <<>>, now |-> 0,
   validTimestamps |-> <<>>, response |-> {}, outcome |-> NoOutcome]

\* the thread after the call c has moved to position pc
Release(c, pc) == IF pc \in YieldPoints \cup {"done"} THEN 0 ELSE c

Moved(c, pc) == [jobs EXCEPT ![c].pc = pc]

ConcFrame == UNCHANGED <<status, argument, thrown, options, response, outcome, history,
                         keyVars, twinVars, repoVars, authVars>>

\* the runtime starts a call, or resumes one that waits at a yield point
Dispatch(request) ==
  /\ status = "constructed"
  /\ thread = 0
  /\ \/ /\ \A c \in 1..Len(jobs) : jobs[c].pc = "done" \/ jobs[c].pc \in YieldPoints
        /\ Len(jobs) < MaxJobs
        /\ jobs' = Append(jobs, NewJob(request))
        /\ thread' = Len(jobs) + 1
     \/ \E c \in 1..Len(jobs) :
          /\ jobs[c].pc \in YieldPoints
          /\ thread' = c
          /\ UNCHANGED jobs
  /\ UNCHANGED <<requestTimestamps, clock>>
  /\ ConcFrame

\* lines 20-23
L20(c) ==
  /\ thread = c /\ jobs[c].pc = "L20"
  /\ IF ThrowsTypeError(jobs[c].request)
     THEN /\ jobs' = [jobs EXCEPT ![c].pc = "done", ![c].outcome = TypeErrorThrown]
          /\ thread' = Release(c, "done")
     ELSE /\ jobs' = [jobs EXCEPT ![c].pc = "L24", ![c].ip = extractIp(jobs[c].request)]
          /\ thread' = Release(c, "L24")
  /\ UNCHANGED <<requestTimestamps, clock>>
  /\ ConcFrame

\* lines 24-25
L24(c, now) ==
  /\ thread = c /\ jobs[c].pc = "L24"
  /\ now >= clock
  /\ clock' = now
  /\ jobs' = [jobs EXCEPT ![c].pc = "L27", ![c].now = now]
  /\ thread' = Release(c, "L27")
  /\ UNCHANGED requestTimestamps
  /\ ConcFrame

\* lines 27-28
L27(c) ==
  /\ thread = c /\ jobs[c].pc = "L27"
  /\ jobs' = [jobs EXCEPT
                ![c].pc = "L30",
                ![c].validTimestamps =
                   ValidTimestamps(MapGet(requestTimestamps, jobs[c].ip),
                                   jobs[c].now - options.windowMs)]
  /\ thread' = Release(c, "L30")
  /\ UNCHANGED <<requestTimestamps, clock>>
  /\ ConcFrame

\* lines 30-36
L30(c) ==
  /\ thread = c /\ jobs[c].pc = "L30"
  /\ IF OverLimit(jobs[c].validTimestamps)
     THEN LET oldestTimestamp == jobs[c].validTimestamps[1]
              retryAfter == retryAfterOf(oldestTimestamp, options.windowMs, jobs[c].now)
          IN /\ jobs' = [jobs EXCEPT
                           ![c].pc = "done",
                           ![c].response =
                              RejectionHeaders(retryAfter, oldestTimestamp, jobs[c].now),
                           ![c].outcome = TooManyRequests]
             /\ thread' = Release(c, "done")
     ELSE /\ jobs' = Moved(c, "L38")
          /\ thread' = Release(c, "L38")
  /\ UNCHANGED <<requestTimestamps, clock>>
  /\ ConcFrame

\* lines 38-39
L38(c) ==
  /\ thread = c /\ jobs[c].pc = "L38"
  /\ jobs' = [jobs EXCEPT ![c].pc = "L41",
                          ![c].validTimestamps = Append(jobs[c].validTimestamps, jobs[c].now)]
  /\ requestTimestamps' =
       MapSet(requestTimestamps, jobs[c].ip, Append(jobs[c].validTimestamps, jobs[c].now))
  /\ thread' = Release(c, "L41")
  /\ UNCHANGED clock
  /\ ConcFrame

\* line 41
L41(c) ==
  /\ thread = c /\ jobs[c].pc = "L41"
  /\ requestTimestamps' = cleanupExpiredEntries(requestTimestamps, jobs[c].now)
  /\ jobs' = Moved(c, "L43")
  /\ thread' = Release(c, "L43")
  /\ UNCHANGED clock
  /\ ConcFrame

\* line 43
L43(c) ==
  /\ thread = c /\ jobs[c].pc = "L43"
  /\ jobs' = [jobs EXCEPT ![c].pc = "done", ![c].outcome = Returned(TRUE)]
  /\ thread' = Release(c, "done")
  /\ UNCHANGED <<requestTimestamps, clock>>
  /\ ConcFrame

ConcNext ==
  \/ \E o \in OptionChoices : Construct(o) /\ UNCHANGED others
  \/ \E request \in Requests : Dispatch(request)
  \/ \E c \in 1..MaxJobs : L20(c)
  \/ \E c \in 1..MaxJobs, now \in 0..MaxFine : L24(c, now)
  \/ \E c \in 1..MaxJobs : L27(c)
  \/ \E c \in 1..MaxJobs : L30(c)
  \/ \E c \in 1..MaxJobs : L38(c)
  \/ \E c \in 1..MaxJobs : L41(c)
  \/ \E c \in 1..MaxJobs : L43(c)

ConcSpec == Init /\ [][ConcNext]_vars

(* ---- C12 ------------------------------------------------------------- *)
AllDone == \A c \in 1..Len(jobs) : jobs[c].pc = "done"

\* the mapping and the per-call results of running the calls of order one
\* after the other, each as a whole, from the given mapping
RECURSIVE Serially(_, _, _)
Serially(order, map, results) ==
  IF order = <<>> THEN [map |-> map, results |-> results]
  ELSE LET c == Head(order)
           result == Activation(map, jobs[c].request, jobs[c].now)
       IN Serially(Tail(order), result.map,
                   [results EXCEPT ![c] = [response |-> result.response,
                                           outcome |-> result.outcome]])

Orders ==
  {order \in [1..Len(jobs) -> 1..Len(jobs)] :
     \A c \in 1..Len(jobs) : \E n \in 1..Len(jobs) : order[n] = c}

Observed == [c \in 1..Len(jobs) |-> [response |-> jobs[c].response, outcome |-> jobs[c].outcome]]

\* C12: when the calls started on one instance have all finished, their
\* outcomes, their Retry-After headers and the mapping are those of the
\* same calls run one after the other in some order.
C12_Serializable ==
  (Running /\ AllDone) =>
    \E order \in Orders :
      LET serial == Serially(order, EmptyMap, Observed)
      IN serial.map = requestTimestamps /\ serial.results = Observed

\* two calls for one key at one instant, the first admitted and the second
\* rejected
C12_Witness ==
  /\ Running
  /\ AllDone
  /\ Len(jobs) = 2
  /\ jobs[1].ip = jobs[2].ip
  /\ jobs[1].now = jobs[2].now
  /\ jobs[1].outcome = Returned(TRUE)
  /\ jobs[2].outcome = TooManyRequests
  /\ thread = 0

(* ---- TransactionalRepository ----------------------------------------- *)
MaxRepos == 4
MaxTxs == 2

RepositoryTypes == {"UserRepository", "OrderRepository"}

LockModes == {"pessimistic_read", "pessimistic_write", "dirty_read",
              "pessimistic_partial_write", "pessimistic_write_or_fail"}

\* an instance has its class, its data source and its entity manager: 0
\* when em is undefined, else the transaction the manager belongs to
Constructed(type) == [type |-> type, dataSource |-> "dataSource", em |-> 0]

\* the methods that make or change an instance work on the heap of
\* instances and answer the heap they leave and the instance they return

\* a new object of the class of instance, on its data source
newInstance(heap, instance) ==
  [heap |-> Append(heap, [type |-> heap[instance].type,
                          dataSource |-> heap[instance].dataSource, em |-> 0]),
   ref |-> Len(heap) + 1]

\* this.em = em; return this
withEntityManager(heap, this, em) ==
  [heap |-> [heap EXCEPT ![this].em = em], ref |-> this]

\* the new instance takes the entity manager of the receiver
withRepositoryManager_OwnManager(heap, this, repositoryManager) ==
  LET new == newInstance(heap, this)
  IN withEntityManager(new.heap, new.ref, new.heap[this].em)

\* no new instance: the receiver itself is bound and returned
withRepositoryManager_BindsReceiver(heap, this, repositoryManager) ==
  withEntityManager(heap, this, heap[repositoryManager].em)

withRepositoryManager(heap, this, repositoryManager) ==
  LET new == newInstance(heap, this)
  IN withEntityManager(new.heap, new.ref, new.heap[repositoryManager].em)

\* the mode parameter is ignored
lockInTransaction_DefaultOnly(this, mode) ==
  IF this.em # 0
  THEN [defined |-> TRUE, mode |-> "pessimistic_write"]
  ELSE [defined |-> FALSE, mode |-> "undefined"]

\* mode is the argument, "undefined" when the call passes none
lockInTransaction(this, mode) ==
  IF this.em # 0
  THEN [defined |-> TRUE, mode |-> IF mode = "undefined" THEN "pessimistic_write" ELSE mode]
  ELSE [defined |-> FALSE, mode |-> "undefined"]

\* where getRepository resolves: the transaction of the entity manager, or
\* 0 for the data source
\* the entity manager is ignored
getRepository_DataSource(this) == 0

getRepository(this) == IF this.em # 0 THEN this.em ELSE 0

RepoFrame == UNCHANGED <<limiterVars, keyVars, twinVars, concVars, authVars>>

\* the application constructs a repository (one of each class, before it
\* uses any)
NewRepository(type) ==
  /\ Len(repos) < MaxRepos
  /\ made.by \in {"none", "new"}
  /\ \A r \in 1..Len(repos) : repos[r].type # type
  /\ txs = <<>> /\ db = {} /\ ~lock.called
  /\ repos' = Append(repos, Constructed(type))
  /\ made' = [by |-> "new", this |-> 0, manager |-> 0, instance |-> Len(repos) + 1]
  /\ UNCHANGED <<txs, db, lock>>
  /\ RepoFrame

\* r.withTransaction(executer) up to the call of the executer: the data
\* source opens a transaction and its callback calls the executer, once,
\* with a new instance bound to the transaction's entity manager
WithTransactionBegins(r) ==
  /\ Len(repos) < MaxRepos
  /\ Len(txs) < MaxTxs
  /\ LET em == Len(txs) + 1
         new == newInstance(repos, r)
         repository == withEntityManager(new.heap, new.ref, em)
     IN /\ repos' = repository.heap
        /\ txs' = Append(txs, [status |-> "active", repository |-> repository.ref,
                               executions |-> 1, writes |-> {},
                               result |-> "pending", returned |-> "pending"])
        /\ made' = [by |-> "withTransaction", this |-> r, manager |-> 0,
                    instance |-> repository.ref]
  /\ UNCHANGED <<db, lock>>
  /\ RepoFrame

\* the data source's transaction(): commit when the callback resolves
Settled(tx, result) ==
  [tx EXCEPT !.status = "committed", !.result = result, !.returned = result]

\* the executer of transaction t returns result; the callback given to
\* dataSource.transaction resolves and withTransaction returns result
ExecuterReturns(t, result) ==
  /\ txs[t].status = "active"
  /\ txs' = [txs EXCEPT ![t] = Settled(txs[t], result)]
  /\ db' = IF txs'[t].status = "committed" THEN db \cup txs[t].writes ELSE db
  /\ UNCHANGED <<repos, lock, made>>
  /\ RepoFrame

\* the executer of transaction t throws: the data source rolls back and
\* withTransaction rejects
ExecuterThrows(t) ==
  /\ txs[t].status = "active"
  /\ txs' = [txs EXCEPT ![t].status = "rolledback", ![t].result = "threw",
                        ![t].returned = "threw"]
  /\ UNCHANGED <<repos, db, lock, made>>
  /\ RepoFrame

\* a write through this.getRepository(...) of instance r
Save(r) ==
  LET via == getRepository(repos[r])
      row == [by |-> r, via |-> via]
  IN /\ via # 0 => txs[via].status = "active"
     /\ IF via = 0
        THEN /\ db' = db \cup {row}
             /\ UNCHANGED txs
        ELSE /\ txs' = [txs EXCEPT ![via].writes = @ \cup {row}]
             /\ UNCHANGED db
     /\ UNCHANGED <<repos, lock, made>>
     /\ RepoFrame

CallWithRepositoryManager(other, manager) ==
  /\ Len(repos) < MaxRepos
  /\ LET returned == withRepositoryManager(repos, other, manager)
     IN /\ repos' = returned.heap
        /\ made' = [by |-> "withRepositoryManager", this |-> other, manager |-> manager,
                    instance |-> returned.ref]
  /\ UNCHANGED <<txs, db, lock>>
  /\ RepoFrame

\* lockInTransaction is pure: one call per behaviour is recorded, any call
\* of any instance at any moment can be that one
CallLockInTransaction(r, mode) ==
  /\ ~lock.called
  /\ lock' = [called |-> TRUE, repo |-> r, argument |-> mode,
              defined |-> lockInTransaction(repos[r], mode).defined,
              mode |-> lockInTransaction(repos[r], mode).mode]
  /\ UNCHANGED <<repos, txs, db, made>>
  /\ RepoFrame

RepoNext ==
  \/ \E type \in RepositoryTypes : NewRepository(type)
  \/ \E r \in 1..Len(repos) : WithTransactionBegins(r)
  \/ \E t \in 1..Len(txs), result \in {"Ok", "Fail"} : ExecuterReturns(t, result)
  \/ \E t \in 1..Len(txs) : ExecuterThrows(t)
  \/ \E r \in 1..Len(repos) : Save(r)
  \/ \E other \in 1..Len(repos), manager \in 1..Len(repos) :
       CallWithRepositoryManager(other, manager)

RepoSpec == Init /\ [][RepoNext]_vars

\* the same repositories, asked for their lock instead of written through
LockNext ==
  \/ \E type \in RepositoryTypes : NewRepository(type)
  \/ \E r \in 1..Len(repos) : WithTransactionBegins(r)
  \/ \E t \in 1..Len(txs), result \in {"Ok", "Fail"} : ExecuterReturns(t, result)
  \/ \E t \in 1..Len(txs) : ExecuterThrows(t)
  \/ \E other \in 1..Len(repos), manager \in 1..Len(repos) :
       CallWithRepositoryManager(other, manager)
  \/ \E r \in 1..Len(repos), mode \in {"undefined"} \cup LockModes :
       CallLockInTransaction(r, mode)

LockSpec == Init /\ [][LockNext]_vars

(* ---- AuthorizeGuard --------------------------------------------------- *)
MaxRoles == 2

Handlers == {"testAuth", "check"}
Roles == {"admin", "user"}

\* the string[] values of at most MaxRoles roles
RoleArrays == UNION {[1..n -> Roles] : n \in 0..MaxRoles}

\* request.user: what the user guard decoded, undefined or null when it
\* decoded no user
Users == {"undefined", "null", "some-user-id"}

FORBIDDEN == 403
ForbiddenException(message) == HttpException(message, FORBIDDEN)

\* a handler without an entry maps to undefined
NoEntry == [has |-> FALSE, roles |-> <<>>]
Entry(roles) == [has |-> TRUE, roles |-> roles]

getRequiredRoles(handler) == rolesMap[handler]

includes(array, value) == \E i \in 1..Len(array) : array[i] = value

\* every in place of some
hasRole_Every(requiredRoles, userRoles) ==
  \A i \in 1..Len(requiredRoles) : includes(userRoles, requiredRoles[i])

hasRole(requiredRoles, userRoles) ==
  \E i \in 1..Len(requiredRoles) : includes(userRoles, requiredRoles[i])

\* !user
NoUser(user) == user \in {"undefined", "null"}

\* the result of AuthorizeGuard.canActivate and whether it asked the user
\* service for the user's roles
Authorize(requiredRoles, user, userRoles) ==
  IF ~requiredRoles.has
  THEN [outcome |-> Returned(TRUE), asked |-> FALSE]
  ELSE IF NoUser(user)
  THEN [outcome |-> ForbiddenException("User not authenticated"), asked |-> FALSE]
  ELSE IF Len(requiredRoles.roles) = 0
  THEN [outcome |-> Returned(TRUE), asked |-> FALSE]
  ELSE IF ~hasRole(requiredRoles.roles, userRoles)
  THEN [outcome |-> ForbiddenException("Insufficient roles"), asked |-> TRUE]
  ELSE [outcome |-> Returned(TRUE), asked |-> TRUE]

AuthFrame == UNCHANGED <<limiterVars, keyVars, twinVars, concVars, repoVars>>

\* the Authorize decorator calls it when the controller class is defined,
\* before the application serves a request
setRequiredRoles(handler, roles) ==
  /\ ~auth.called
  /\ rolesMap' = [rolesMap EXCEPT ![handler] = Entry(roles)]
  /\ UNCHANGED auth
  /\ AuthFrame

\* one run of the guard for a request to handler; userRoles is what
\* userService.getUserRoles answers for the user
AuthorizeGuard_canActivate(handler, user, userRoles) ==
  LET requiredRoles == getRequiredRoles(handler)
      result == Authorize(requiredRoles, user, userRoles)
  IN /\ auth' = [called |-> TRUE, handler |-> handler, requiredRoles |-> requiredRoles,
                 user |-> user, userRoles |-> userRoles, asked |-> result.asked,
                 outcome |-> result.outcome]
     /\ UNCHANGED rolesMap
     /\ AuthFrame

AuthNext ==
  \/ \E handler \in Handlers, roles \in RoleArrays : setRequiredRoles(handler, roles)
  \/ \E handler \in Handlers, user \in Users, userRoles \in RoleArrays :
       AuthorizeGuard_canActivate(handler, user, userRoles)

AuthSpec == Init /\ [][AuthNext]_vars

(* ---- C14 -------------------------------------------------------------- *)
\* the rows that persist of those written in transaction t
Persisted(t) == {row \in db : row.via = t}

\* C14: when the executer given to withTransaction returns a Fail result
\* without throwing, the transaction is rolled back and none of the writes
\* made inside the callback persist
C14_FailRollsBack ==
  \A t \in 1..Len(txs) :
    txs[t].result = "Fail" => Persisted(t) = {}

(* ---- C15 -------------------------------------------------------------- *)
\* the last instance made is the result of other.withRepositoryManager(manager)
Delegated == made.by = "withRepositoryManager"

\* C15: other.withRepositoryManager(manager) returns a new instance of
\* other's class bound to the entity manager of manager: its operations
\* resolve to the manager's transaction, and to the data source when the
\* manager is in no transaction
C15_SharesManager ==
  Delegated =>
    LET new == repos[made.instance]
        other == repos[made.this]
        manager == repos[made.manager]
    IN /\ made.instance \notin {made.this, made.manager}
       /\ new.type = other.type
       /\ new.dataSource = other.dataSource
       /\ new.em = manager.em
       /\ getRepository(new) = getRepository(manager)
       /\ manager.em = 0 => new.em = 0

\* inside a withTransaction callback, a repository of another class took
\* the callback's manager while itself bound to none, wrote, and its row
\* committed with the transaction
C15_Witness ==
  /\ Delegated
  /\ repos[made.this].type # repos[made.manager].type
  /\ repos[made.this].em = 0
  /\ repos[made.manager].em # 0
  /\ txs[repos[made.manager].em].status = "committed"
  /\ [by |-> made.instance, via |-> repos[made.manager].em] \in db

(* ---- C16 -------------------------------------------------------------- *)
\* C16: lockInTransaction(mode) returns { mode }, mode defaulting to
\* 'pessimistic_write', exactly when the instance is bound to a
\* transaction's entity manager, and undefined on every other instance
C16_LockOnlyInTransaction ==
  lock.called =>
    /\ lock.defined <=> repos[lock.repo].em # 0
    /\ lock.defined =>
          lock.mode = IF lock.argument = "undefined" THEN "pessimistic_write"
                      ELSE lock.argument
    /\ ~lock.defined => lock.mode = "undefined"

\* an instance inside an active transaction is asked for a lock other than
\* the default
C16_Witness ==
  /\ lock.called
  /\ lock.defined
  /\ lock.argument \notin {"undefined", "pessimistic_write"}
  /\ lock.mode = lock.argument
  /\ txs[repos[lock.repo].em].status = "active"

(* ---- C17 -------------------------------------------------------------- *)
UserPresent == ~NoUser(auth.user)

\* the user holds at least one of the roles the handler requires
HoldsRequiredRole ==
  \E role \in Roles :
    /\ \E i \in 1..Len(auth.requiredRoles.roles) : auth.requiredRoles.roles[i] = role
    /\ \E j \in 1..Len(auth.userRoles) : auth.userRoles[j] = role

Admissible ==
  \/ ~auth.requiredRoles.has
  \/ UserPresent /\ auth.requiredRoles.roles = <<>>
  \/ UserPresent /\ HoldsRequiredRole

\* C17: AuthorizeGuard admits a request iff the handler has no roles
\* entry, or a user is present and the list is empty, or a user is present
\* and holds a required role; an entry without a user fails with Forbidden
\* 'User not authenticated', a user holding none of a non-empty list of
\* required roles fails with Forbidden 'Insufficient roles'
C17_AdmitsIffAuthorized ==
  auth.called =>
    /\ auth.outcome = Returned(TRUE) <=> Admissible
    /\ auth.requiredRoles.has /\ ~UserPresent =>
          auth.outcome = [kind |-> "threw", value |-> FALSE, status |-> 403,
                          message |-> "User not authenticated"]
    /\ auth.requiredRoles.has /\ UserPresent /\ ~Admissible =>
          auth.outcome = [kind |-> "threw", value |-> FALSE, status |-> 403,
                          message |-> "Insufficient roles"]

\* a handler requiring two roles admits a user who holds one of them
C17_Witness ==
  /\ auth.called
  /\ auth.requiredRoles = [has |-> TRUE, roles |-> <<"admin", "user">>]
  /\ auth.user = "some-user-id"
  /\ auth.userRoles = <<"user">>
  /\ auth.asked
  /\ auth.outcome = Returned(TRUE)

(* ---- C21 -------------------------------------------------------------- *)
\* the admitted calls of call i's key made before it at the instant d
\* milliseconds after the start of call i's window
AdmittedAtOffset(i, d) ==
  {j \in AdmittedBefore(i) : history[j].now = history[i].now - options.windowMs + d}

\* every admitted call of call i's key made before it has aged windowMs or
\* more
AllAged(i) ==
  \A j \in AdmittedBefore(i) : history[j].now <= history[i].now - options.windowMs

\* C21: the window boundary is strict: a timestamp aged exactly windowMs is
\* not counted and a timestamp aged windowMs - 1 is; with maxRequests
\* admissions at time t a call at exactly t + windowMs is admitted, and
\* with maxRequests admissions one millisecond later it is rejected
C21_StrictBoundary ==
  Running =>
    \A i \in Calls :
      /\ AllAged(i) => history[i].admitted
      /\ Cardinality(AdmittedAtOffset(i, 1)) >= options.maxRequests
           => ~history[i].admitted
      /\ \A j \in AdmittedAtOffset(i, 0) : history[j].now \notin CountedBy(i)
      /\ \A j \in AdmittedAtOffset(i, 1) : history[j].now \in CountedBy(i)

\* a key is admitted maxRequests times at one instant and again exactly
\* windowMs later, and another key admitted one millisecond after that
\* instant is rejected at the same later instant
C21_Witness ==
  /\ Running
  /\ \E i \in Calls :
       /\ history[i].admitted
       /\ Cardinality(AdmittedAtOffset(i, 0)) = options.maxRequests
       /\ AllAged(i)
  /\ \E i \in Calls :
       /\ ~history[i].admitted
       /\ Cardinality(AdmittedAtOffset(i, 1)) = options.maxRequests

(* ---- C22 -------------------------------------------------------------- *)
\* the last call ran the pruning pass of line 41: it was admitted
Pruned == Running /\ history # <<>> /\ LastCall.admitted

\* C22: after a pruning pass performed at time now, every timestamp
\* retained in the log of every key of the mapping is greater than
\* now - windowMs
C22_RetainedWithinWindow ==
  Pruned =>
    \A k \in DOMAIN requestTimestamps :
      \A n \in 1..Len(requestTimestamps[k]) :
        requestTimestamps[k][n] > LastCall.now - options.windowMs

\* the pass of a call for one key dropped a timestamp of another key aged
\* exactly windowMs and kept a newer one
C22_Witness ==
  /\ Pruned
  /\ \E k \in DOMAIN requestTimestamps :
       /\ k # LastCall.ip
       /\ \A i \in CallsFor(k) : history[i].now < LastCall.now
       /\ \E i \in CallsFor(k) :
            /\ history[i].admitted
            /\ history[i].now = LastCall.now - options.windowMs

(* ---- calls at any instants -------------------------------------------- *)
MaxSkewCalls == 3
MaxSkewTime == 3

\* Date.now() reads the wall clock, which may be set back between calls
SkewTimes == 0..MaxSkewTime

SkewFrame == UNCHANGED others

canActivateAt(request, now) ==
  /\ status = "constructed"
  /\ Len(history) < MaxSkewCalls
  /\ LET result == Activation(requestTimestamps, request, now)
     IN /\ clock' = IF result.decisions = <<>> THEN clock ELSE now
        /\ requestTimestamps' = result.map
        /\ response' = result.response
        /\ outcome' = result.outcome
        /\ history' = history \o result.decisions
  /\ UNCHANGED <<status, argument, thrown, options>>
  /\ SkewFrame

SkewNext ==
  \/ \E o \in OptionChoices : Construct(o) /\ SkewFrame
  \/ \E request \in Requests, now \in SkewTimes : canActivateAt(request, now)

SkewSpec == Init /\ [][SkewNext]_vars

(* ---- C23 -------------------------------------------------------------- *)
NonDecreasing(log) == \A m, n \in 1..Len(log) : m < n => log[m] <= log[n]

\* Date.now() never went back from one call to the next
ForwardClock == \A i, j \in Calls : i < j => history[i].now <= history[j].now

LogsInOrder == \A k \in DOMAIN requestTimestamps : NonDecreasing(requestTimestamps[k])

\* C23 as stated: in every reachable state the timestamps within each
\* key's log are in non-decreasing order
C23_LogsNonDecreasing == LogsInOrder

\* C23: as long as the instants Date.now() returned to the calls never
\* decreased, the timestamps within each key's log are in non-decreasing
\* order
C23_LogsNonDecreasingForwardClock == ForwardClock => LogsInOrder

\* a log of two distinct timestamps, in order, under a clock that moved
\* forward
C23_Witness ==
  /\ Running
  /\ ForwardClock
  /\ \E k \in DOMAIN requestTimestamps :
       /\ Len(requestTimestamps[k]) = 2
       /\ requestTimestamps[k][1] < requestTimestamps[k][2]

(* ---- C24 -------------------------------------------------------------- *)
EverAdmitted(k) == \E i \in CallsFor(k) : history[i].admitted

\* C24: a key is in the mapping only after a call for it was admitted, and
\* every key of the mapping has a non-empty log
C24_LazyAndNonEmpty ==
  \A k \in DOMAIN requestTimestamps :
    /\ Running
    /\ EverAdmitted(k)
    /\ requestTimestamps[k] # <<>>

\* one key was admitted and is gone from the mapping, its log emptied by
\* the pass of the first call for another key
C24_Witness ==
  /\ Running
  /\ \E k \in Keys : EverAdmitted(k) /\ k \notin DOMAIN requestTimestamps
  /\ history # <<>>
  /\ LastCall.admitted
  /\ LastCall.ip \in DOMAIN requestTimestamps
  /\ \A i \in Calls : i < Len(history) => history[i].ip # LastCall.ip

(* ---- C26 -------------------------------------------------------------- *)
\* C26: the log stored for every key has between 1 and maxRequests
\* timestamps, whatever the calls and the instants of the calls
C26_LogLengthBounded ==
  \A k \in DOMAIN requestTimestamps :
    /\ Len(requestTimestamps[k]) >= 1
    /\ Len(requestTimestamps[k]) <= options.maxRequests

\* a full log under a clock that went back, after a rejected call
C26_Witness ==
  /\ Running
  /\ ~ForwardClock
  /\ Rejections # {}
  /\ \E k \in DOMAIN requestTimestamps :
       /\ options.maxRequests = 2
       /\ Len(requestTimestamps[k]) = options.maxRequests

(* ---- C27 -------------------------------------------------------------- *)
\* C27: a rejected call leaves the whole mapping unchanged, its keys and
\* the log of every key
C27_RejectionLeavesMapping ==
  [][(DecisionStep /\ ~Decided.admitted) => requestTimestamps' = requestTimestamps]_vars

\* after a rejected call the mapping still holds another key whose
\* timestamps have all expired at the time of the call
C27_Witness ==
  /\ Running
  /\ history # <<>>
  /\ ~LastCall.admitted
  /\ \E k \in DOMAIN requestTimestamps :
       /\ k # LastCall.ip
       /\ \A n \in 1..Len(requestTimestamps[k]) :
            requestTimestamps[k][n] <= LastCall.now - options.windowMs

(* ---- C28 -------------------------------------------------------------- *)
\* oldestValid of rejected call i
OldestValid(i) == SetMin(CountedBy(i))

\* the calls for the key of call i made after it
LaterCalls(i) == {j \in CallsFor(history[i].ip) : j > i}

\* the instant a whole second before the one the hint of rejection i names
SecondBeforeHint(i) == history[i].now + 1000 * (history[i].retryAfter - 1)

\* C28: with call times non-decreasing, after a rejection computed from
\* oldestValid every further call for the key made strictly before
\* oldestValid + windowMs is rejected; in particular a retry made a whole
\* second before the hinted instant is not admitted
C28_HintTight ==
  (Running /\ ForwardClock) =>
    \A i \in Rejections :
      \A j \in LaterCalls(i) :
        /\ history[j].now < OldestValid(i) + options.windowMs => ~history[j].admitted
        /\ history[j].now <= SecondBeforeHint(i) => ~history[j].admitted

\* a key rejected with a hint of two seconds retries one second later and
\* is rejected, then is admitted once oldestValid has aged windowMs
C28_Witness ==
  /\ Running
  /\ \E i \in Rejections :
       /\ history[i].retryAfter = 2
       /\ \E j \in LaterCalls(i) :
            /\ history[j].now = SecondBeforeHint(i)
            /\ history[j].now > history[i].now
            /\ ~history[j].admitted
       /\ \E j \in LaterCalls(i) :
            /\ history[j].now = OldestValid(i) + options.windowMs
            /\ history[j].admitted

(* ---- C29 -------------------------------------------------------------- *)
\* a request whose key is k: no x-forwarded-for header and request.ip = k
RequestOf(k) == [xff |-> Undefined, ip |-> StringValue(k)]

\* the mapping and the decisions of an instance that is given the calls
\* of the sequence, one after the other
RECURSIVE Replay(_, _, _)
Replay(map, calls, decisions) ==
  IF calls = <<>> THEN [map |-> map, decisions |-> decisions]
  ELSE LET result == Activation(map, RequestOf(Head(calls).ip), Head(calls).now)
       IN Replay(result.map, Tail(calls), decisions \o result.decisions)

\* the history without its rejected calls
AdmittedHistory == SelectSeq(history, LAMBDA h : h.admitted)

\* an instance whose clients made none of the rejected calls
Unpestered == Replay(EmptyMap, AdmittedHistory, <<>>)

\* the instants from the last call on at which a call for k is admitted
AdmittedFrom(map, k) ==
  {now \in Times : /\ now >= clock
                   /\ Activation(map, RequestOf(k), now).outcome = Returned(TRUE)}

\* C29: rejected calls do not extend a key's lockout: the same admitted
\* calls are admitted when none of the rejected calls is made, and the
\* earliest instant at which a key is next admitted is the same
C29_RejectionsDoNotExtendLockout ==
  Running =>
    LET alone == Unpestered
    IN /\ alone.decisions = AdmittedHistory
       /\ \A k \in Keys :
            AdmittedFrom(requestTimestamps, k) = AdmittedFrom(alone.map, k)

\* a key is rejected twice while locked out and admitted at the instant
\* its counted timestamp has aged windowMs
C29_Witness ==
  /\ Running
  /\ history # <<>>
  /\ LastCall.admitted
  /\ Cardinality(Rejections \cap CallsFor(LastCall.ip)) >= 2
  /\ \E j \in AdmittedBefore(Len(history)) :
       history[j].now + options.windowMs = LastCall.now

(* ---- C25 -------------------------------------------------------------- *)
\* the rows written so far, persisted or pending in a transaction
Written == db \cup UNION {txs[t].writes : t \in 1..Len(txs)}

\* C25: withTransaction invokes the executer once, with a repository whose
\* getRepository resolves through the transaction's entity manager, and
\* returns the executer's result; a repository bound to no transaction
\* resolves getRepository through the data source
C25_ExecuterInTransaction ==
  /\ \A t \in 1..Len(txs) :
       /\ txs[t].executions = 1
       /\ repos[txs[t].repository].em = t
       /\ getRepository(repos[txs[t].repository]) = t
       /\ txs[t].returned = txs[t].result
       /\ \A row \in txs[t].writes : row.via = t
  /\ \A r \in 1..Len(repos) : repos[r].em = 0 => getRepository(repos[r]) = 0
  /\ \A row \in Written : row.via = repos[row.by].em

\* a transaction returned its executer's Ok after the executer's
\* repository wrote through the entity manager, and the receiver, bound to
\* no transaction, wrote through the data source
C25_Witness ==
  /\ made.by = "withTransaction"
  /\ repos[made.this].em = 0
  /\ LET t == repos[made.instance].em
     IN /\ t # 0
        /\ txs[t].repository = made.instance
        /\ txs[t].status = "committed"
        /\ txs[t].returned = "Ok"
        /\ [by |-> made.instance, via |-> t] \in db
        /\ [by |-> made.this, via |-> 0] \in db

(* ---- C30 -------------------------------------------------------------- *)
\* a step of withTransaction or withRepositoryManager
MakesInstance == made' # made /\ made'.by \in {"withTransaction", "withRepositoryManager"}

\* C30: withTransaction and withRepositoryManager never mutate their
\* receiver or their argument: every instance that exists keeps its
\* entity-manager binding, during the callback and after it, and the
\* instance the call binds is a new one
C30_ReceiverUntouched ==
  [][/\ \A r \in 1..Len(repos) : r \in 1..Len(repos') /\ repos'[r] = repos[r]
     /\ MakesInstance =>
          /\ Len(repos') = Len(repos) + 1
          /\ made'.instance = Len(repos')]_vars

\* during the callback the receiver is still bound to no transaction and
\* writes through the data source, while the new instance has a write
\* pending in the transaction; a repository that took the new instance as
\* manager left it as it was
C30_Witness ==
  /\ made.by = "withRepositoryManager"
  /\ repos[made.manager].em # 0
  /\ repos[made.this].em = 0
  /\ repos[made.instance].em = repos[made.manager].em
  /\ LET t == repos[made.manager].em
     IN /\ txs[t].status = "active"
        /\ txs[t].repository = made.manager
        /\ [by |-> made.manager, via |-> t] \in txs[t].writes
        /\ \E r \in 1..Len(repos) : repos[r].em = 0 /\ [by |-> r, via |-> 0] \in db

====
